---- MODULE Spec2Model ----
(***************************************************************************)
(* DPVS: the on-chain prescription registry (DoctorRegistry,               *)
(* PharmacyRegistry, PrescriptionRegistry) and the pharmacy dashboard's    *)
(* verification session, as a state machine.                               *)
(*                                                                         *)
(* A transaction that reverts leaves the whole chain state as it was; the  *)
(* only trace of it is the outcome handed back to the caller.  The ledger  *)
(* specifications keep that outcome in ret.                                *)
(***************************************************************************)
EXTENDS Integers, Sequences, FiniteSets, TLC

(***************************************************************************)
(* Bounds and input domains                                                *)
(***************************************************************************)
MaxTime == 3

ZeroAddress == 0
Addresses == {0, 1, 2}
Senders == Addresses \ {ZeroAddress}     \* msg.sender is never address(0)

\* bytes32 values, written as numbers; the dashboard's text forms are further down
ZeroHash32 == 0
Hashes == {0, 171}

Times == 1..MaxTime
Expiries == 0..MaxTime
Locators == {"QmA"}
DoctorNames == {"Dr"}

owner == 1

(***************************************************************************)
(* Revert reasons                                                          *)
(***************************************************************************)
ErrNotDoctor == "PrescriptionRegistry: Not a verified doctor"
ErrInvalidExpiry == "PrescriptionRegistry: Invalid expiry date"
ErrDuplicate == "PrescriptionRegistry: Prescription with this content hash already exists."
ErrNotPharmacy == "PrescriptionRegistry: Not a verified pharmacy"
ErrNotExist == "PrescriptionRegistry: Prescription does not exist"
ErrExpired == "PrescriptionRegistry: Prescription expired"
ErrAlreadyFulfilled == "PrescriptionRegistry: This pharmacy has already fulfilled this prescription."
ErrNameNotFound == "PrescriptionRegistry: Pharmacy name not found."
ErrPhInvalidAddress == "PharmacyRegistry: Invalid address"
ErrPhEmptyName == "PharmacyRegistry: Pharmacy name cannot be empty"
ErrPhAlready == "PharmacyRegistry: Pharmacy already registered"
ErrPhNotRegistered == "PharmacyRegistry: Pharmacy not registered"
ErrDocAlready == "Doctor already registered and active"
ErrDocNotActive == "Doctor is not active"
ErrNotOwner == "OwnableUnauthorizedAccount"
Ok == ""

(***************************************************************************)
(* State                                                                   *)
(***************************************************************************)
VARIABLES
    now,                    \* block.timestamp
    doctors,                \* DoctorRegistry.doctors
    isVerifiedDoctor,       \* DoctorRegistry.isVerifiedDoctor
    verifiedPharmacies,     \* PharmacyRegistry.verifiedPharmacies
    prescriptions,          \* PrescriptionRegistry.prescriptions
    patientPrescriptions,   \* PrescriptionRegistry.patientPrescriptions
    doctorPrescriptions,    \* PrescriptionRegistry.doctorPrescriptions
    issuedEvents,           \* the PrescriptionIssued events emitted so far
    ret,                    \* what the most recent observed call handed back
    account,                \* PharmacyDashboard: the connected wallet's address
    qrCodeInput,            \* PharmacyDashboard state
    verificationStatus,     \* "null", "loading", "valid", "invalid", "error"
    verifiedPrescription,
    isLoading,
    statusMessage,
    isPharmacyVerified,
    pharmacyName,
    pc,                     \* where handleVerify stands: "idle", "details", "verify"
    hv                      \* handleVerify's locals

chainVars == <<now, doctors, isVerifiedDoctor, verifiedPharmacies, prescriptions,
               patientPrescriptions, doctorPrescriptions, issuedEvents>>
sessionVars == <<account, qrCodeInput, verificationStatus, verifiedPrescription, isLoading,
                 statusMessage, isPharmacyVerified, pharmacyName, pc, hv>>
vars == <<now, doctors, isVerifiedDoctor, verifiedPharmacies, prescriptions,
          patientPrescriptions, doctorPrescriptions, issuedEvents, ret,
          account, qrCodeInput, verificationStatus, verifiedPrescription, isLoading,
          statusMessage, isPharmacyVerified, pharmacyName, pc, hv>>

Range(seq) == {seq[i] : i \in DOMAIN seq}

NoDoctor ==
    [name |-> "", licenseNumber |-> "", specialization |-> "",
     isActive |-> FALSE, registeredAt |-> 0]

NoPrescription ==
    [doctor |-> ZeroAddress, patient |-> ZeroAddress, contentHash |-> ZeroHash32,
     ipfsHash |-> "", issuedAt |-> 0, expiryDate |-> 0,
     fulfillments |-> <<>>, hasFulfilled |-> [a \in Addresses |-> FALSE]]

\* a transaction's outcome: the revert reason (Ok when it went through) and its value
Outcome(op, revert) ==
    [op |-> op, revert |-> revert, value |-> FALSE, args |-> <<>>, at |-> 0]

\* a view's outcome, with the arguments and block time it was evaluated at
ViewOutcome(op, args, value) ==
    [op |-> op, revert |-> Ok, value |-> value, args |-> args, at |-> now]

InitChain ==
    /\ now = 1
    /\ doctors = [a \in Addresses |-> NoDoctor]
    /\ isVerifiedDoctor = [a \in Addresses |-> FALSE]
    /\ verifiedPharmacies = [a \in Addresses |-> ""]
    /\ prescriptions = [h \in Hashes |-> NoPrescription]
    /\ patientPrescriptions = [a \in Addresses |-> <<>>]
    /\ doctorPrescriptions = [a \in Addresses |-> <<>>]
    /\ issuedEvents = <<>>

(***************************************************************************)
(* Time: block timestamps never decrease                                   *)
(***************************************************************************)
Tick ==
    /\ now < MaxTime
    /\ now' = now + 1
    /\ UNCHANGED <<doctors, isVerifiedDoctor, verifiedPharmacies, prescriptions,
                   patientPrescriptions, doctorPrescriptions, issuedEvents>>

(***************************************************************************)
(* PharmacyRegistry                                                        *)
(***************************************************************************)
isVerifiedPharmacy(a) == verifiedPharmacies[a] # ""

getPharmacyName(a) == verifiedPharmacies[a]

\* mutant: a registered address can be registered again
registerPharmacyRevert_Overwrites(a, name) ==
    IF a = ZeroAddress THEN ErrPhInvalidAddress
    ELSE IF name = "" THEN ErrPhEmptyName
    ELSE Ok

registerPharmacyRevert(a, name) ==
    IF a = ZeroAddress THEN ErrPhInvalidAddress
    ELSE IF name = "" THEN ErrPhEmptyName
    ELSE IF verifiedPharmacies[a] # "" THEN ErrPhAlready
    ELSE Ok

registerPharmacy(a, name) ==
    /\ verifiedPharmacies' =
          IF registerPharmacyRevert(a, name) = Ok
          THEN [verifiedPharmacies EXCEPT ![a] = name]
          ELSE verifiedPharmacies
    /\ UNCHANGED <<now, doctors, isVerifiedDoctor, prescriptions,
                   patientPrescriptions, doctorPrescriptions, issuedEvents>>

removePharmacyRevert(a) ==
    IF verifiedPharmacies[a] = "" THEN ErrPhNotRegistered ELSE Ok

removePharmacy(a) ==
    /\ verifiedPharmacies' =
          IF removePharmacyRevert(a) = Ok
          THEN [verifiedPharmacies EXCEPT ![a] = ""]
          ELSE verifiedPharmacies
    /\ UNCHANGED <<now, doctors, isVerifiedDoctor, prescriptions,
                   patientPrescriptions, doctorPrescriptions, issuedEvents>>

(***************************************************************************)
(* DoctorRegistry                                                          *)
(***************************************************************************)
registerDoctorRevert(a) ==
    IF doctors[a].isActive THEN ErrDocAlready ELSE Ok

registerDoctor(a, name, lic, spec) ==
    /\ IF registerDoctorRevert(a) = Ok
       THEN /\ doctors' = [doctors EXCEPT ![a] =
                   [name |-> name, licenseNumber |-> lic, specialization |-> spec,
                    isActive |-> TRUE, registeredAt |-> now]]
            /\ isVerifiedDoctor' = [isVerifiedDoctor EXCEPT ![a] = TRUE]
       ELSE UNCHANGED <<doctors, isVerifiedDoctor>>
    /\ UNCHANGED <<now, verifiedPharmacies, prescriptions,
                   patientPrescriptions, doctorPrescriptions, issuedEvents>>

deactivateDoctorRevert(sender, a) ==
    IF sender # owner THEN ErrNotOwner
    ELSE IF ~doctors[a].isActive THEN ErrDocNotActive
    ELSE Ok

\* mutant: deactivation clears the mapping flag and leaves the struct's flag set
deactivateDoctor_StructFlagKept(sender, a) ==
    /\ IF deactivateDoctorRevert(sender, a) = Ok
       THEN /\ isVerifiedDoctor' = [isVerifiedDoctor EXCEPT ![a] = FALSE]
            /\ UNCHANGED doctors
       ELSE UNCHANGED <<doctors, isVerifiedDoctor>>
    /\ UNCHANGED <<now, verifiedPharmacies, prescriptions,
                   patientPrescriptions, doctorPrescriptions, issuedEvents>>

deactivateDoctor(sender, a) ==
    /\ IF deactivateDoctorRevert(sender, a) = Ok
       THEN /\ isVerifiedDoctor' = [isVerifiedDoctor EXCEPT ![a] = FALSE]
            /\ doctors' = [doctors EXCEPT ![a].isActive = FALSE]
       ELSE UNCHANGED <<doctors, isVerifiedDoctor>>
    /\ UNCHANGED <<now, verifiedPharmacies, prescriptions,
                   patientPrescriptions, doctorPrescriptions, issuedEvents>>

(***************************************************************************)
(* PrescriptionRegistry: writes                                            *)
(***************************************************************************)
\* mutant: the duplicate check is left out
issuePrescriptionRevert_NoDuplicateCheck(sender, patient, contentHash, ipfsHash, expiryDate) ==
    IF ~isVerifiedDoctor[sender] THEN ErrNotDoctor
    ELSE IF ~(expiryDate > now) THEN ErrInvalidExpiry
    ELSE Ok

\* mutant: the caller's registration as a doctor is not checked
issuePrescriptionRevert_NoAuth(sender, patient, contentHash, ipfsHash, expiryDate) ==
    IF ~(expiryDate > now) THEN ErrInvalidExpiry
    ELSE IF prescriptions[contentHash].doctor # ZeroAddress THEN ErrDuplicate
    ELSE Ok

\* mutant: an expiry equal to the block time is let through
issuePrescriptionRevert_ExpiryNowAllowed(sender, patient, contentHash, ipfsHash, expiryDate) ==
    IF ~isVerifiedDoctor[sender] THEN ErrNotDoctor
    ELSE IF ~(expiryDate >= now) THEN ErrInvalidExpiry
    ELSE IF prescriptions[contentHash].doctor # ZeroAddress THEN ErrDuplicate
    ELSE Ok

issuePrescriptionRevert(sender, patient, contentHash, ipfsHash, expiryDate) ==
    IF ~isVerifiedDoctor[sender] THEN ErrNotDoctor
    ELSE IF ~(expiryDate > now) THEN ErrInvalidExpiry
    ELSE IF prescriptions[contentHash].doctor # ZeroAddress THEN ErrDuplicate
    ELSE Ok

\* mutant: the issuer's index entry is filed under the patient
issuePrescription_IssuerIndexUnderPatient(sender, patient, contentHash, ipfsHash, expiryDate) ==
    /\ IF issuePrescriptionRevert(sender, patient, contentHash, ipfsHash, expiryDate) = Ok
       THEN /\ prescriptions' = [prescriptions EXCEPT ![contentHash] =
                   [@ EXCEPT !.doctor = sender,
                             !.patient = patient,
                             !.contentHash = contentHash,
                             !.ipfsHash = ipfsHash,
                             !.issuedAt = now,
                             !.expiryDate = expiryDate]]
            /\ patientPrescriptions' =
                   [patientPrescriptions EXCEPT ![patient] = Append(@, contentHash)]
            /\ doctorPrescriptions' =
                   [doctorPrescriptions EXCEPT ![patient] = Append(@, contentHash)]
            /\ issuedEvents' = Append(issuedEvents,
                   [prescriptionId |-> contentHash, doctor |-> sender,
                    patient |-> patient, ipfsHash |-> ipfsHash])
       ELSE UNCHANGED <<prescriptions, patientPrescriptions, doctorPrescriptions,
                        issuedEvents>>
    /\ UNCHANGED <<now, doctors, isVerifiedDoctor, verifiedPharmacies>>

\* mutant: the issuer's index is not written
issuePrescription_NoIssuerIndex(sender, patient, contentHash, ipfsHash, expiryDate) ==
    /\ IF issuePrescriptionRevert(sender, patient, contentHash, ipfsHash, expiryDate) = Ok
       THEN /\ prescriptions' = [prescriptions EXCEPT ![contentHash] =
                   [@ EXCEPT !.doctor = sender,
                             !.patient = patient,
                             !.contentHash = contentHash,
                             !.ipfsHash = ipfsHash,
                             !.issuedAt = now,
                             !.expiryDate = expiryDate]]
            /\ patientPrescriptions' =
                   [patientPrescriptions EXCEPT ![patient] = Append(@, contentHash)]
            /\ issuedEvents' = Append(issuedEvents,
                   [prescriptionId |-> contentHash, doctor |-> sender,
                    patient |-> patient, ipfsHash |-> ipfsHash])
            /\ UNCHANGED doctorPrescriptions
       ELSE UNCHANGED <<prescriptions, patientPrescriptions, doctorPrescriptions,
                        issuedEvents>>
    /\ UNCHANGED <<now, doctors, isVerifiedDoctor, verifiedPharmacies>>

\* mutant: the contentHash field is left at its default
issuePrescription_HashNotStored(sender, patient, contentHash, ipfsHash, expiryDate) ==
    /\ IF issuePrescriptionRevert(sender, patient, contentHash, ipfsHash, expiryDate) = Ok
       THEN /\ prescriptions' = [prescriptions EXCEPT ![contentHash] =
                   [@ EXCEPT !.doctor = sender,
                             !.patient = patient,
                             !.ipfsHash = ipfsHash,
                             !.issuedAt = now,
                             !.expiryDate = expiryDate]]
            /\ patientPrescriptions' =
                   [patientPrescriptions EXCEPT ![patient] = Append(@, contentHash)]
            /\ doctorPrescriptions' =
                   [doctorPrescriptions EXCEPT ![sender] = Append(@, contentHash)]
            /\ issuedEvents' = Append(issuedEvents,
                   [prescriptionId |-> contentHash, doctor |-> sender,
                    patient |-> patient, ipfsHash |-> ipfsHash])
       ELSE UNCHANGED <<prescriptions, patientPrescriptions, doctorPrescriptions,
                        issuedEvents>>
    /\ UNCHANGED <<now, doctors, isVerifiedDoctor, verifiedPharmacies>>

issuePrescription(sender, patient, contentHash, ipfsHash, expiryDate) ==
    /\ IF issuePrescriptionRevert(sender, patient, contentHash, ipfsHash, expiryDate) = Ok
       THEN /\ prescriptions' = [prescriptions EXCEPT ![contentHash] =
                   [@ EXCEPT !.doctor = sender,
                             !.patient = patient,
                             !.contentHash = contentHash,
                             !.ipfsHash = ipfsHash,
                             !.issuedAt = now,
                             !.expiryDate = expiryDate]]
            /\ patientPrescriptions' =
                   [patientPrescriptions EXCEPT ![patient] = Append(@, contentHash)]
            /\ doctorPrescriptions' =
                   [doctorPrescriptions EXCEPT ![sender] = Append(@, contentHash)]
            /\ issuedEvents' = Append(issuedEvents,
                   [prescriptionId |-> contentHash, doctor |-> sender,
                    patient |-> patient, ipfsHash |-> ipfsHash])
       ELSE UNCHANGED <<prescriptions, patientPrescriptions, doctorPrescriptions,
                        issuedEvents>>
    /\ UNCHANGED <<now, doctors, isVerifiedDoctor, verifiedPharmacies>>

\* mutant: the caller's registration is not checked
fulfillPrescriptionRevert_NoAuth(sender, id) ==
    IF prescriptions[id].doctor = ZeroAddress THEN ErrNotExist
    ELSE IF ~(now <= prescriptions[id].expiryDate) THEN ErrExpired
    ELSE IF prescriptions[id].hasFulfilled[sender] THEN ErrAlreadyFulfilled
    ELSE IF getPharmacyName(sender) = "" THEN ErrNameNotFound
    ELSE Ok

\* mutant: the expiry second itself is already too late
fulfillPrescriptionRevert_StrictExpiry(sender, id) ==
    IF ~isVerifiedPharmacy(sender) THEN ErrNotPharmacy
    ELSE IF prescriptions[id].doctor = ZeroAddress THEN ErrNotExist
    ELSE IF ~(now < prescriptions[id].expiryDate) THEN ErrExpired
    ELSE IF prescriptions[id].hasFulfilled[sender] THEN ErrAlreadyFulfilled
    ELSE IF getPharmacyName(sender) = "" THEN ErrNameNotFound
    ELSE Ok

\* mutant: one fulfillment closes the prescription for every pharmacy
fulfillPrescriptionRevert_SingleUse(sender, id) ==
    IF ~isVerifiedPharmacy(sender) THEN ErrNotPharmacy
    ELSE IF prescriptions[id].doctor = ZeroAddress THEN ErrNotExist
    ELSE IF ~(now <= prescriptions[id].expiryDate) THEN ErrExpired
    ELSE IF Len(prescriptions[id].fulfillments) > 0 THEN ErrAlreadyFulfilled
    ELSE IF getPharmacyName(sender) = "" THEN ErrNameNotFound
    ELSE Ok

fulfillPrescriptionRevert(sender, id) ==
    IF ~isVerifiedPharmacy(sender) THEN ErrNotPharmacy
    ELSE IF prescriptions[id].doctor = ZeroAddress THEN ErrNotExist
    ELSE IF ~(now <= prescriptions[id].expiryDate) THEN ErrExpired
    ELSE IF prescriptions[id].hasFulfilled[sender] THEN ErrAlreadyFulfilled
    ELSE IF getPharmacyName(sender) = "" THEN ErrNameNotFound
    ELSE Ok

\* mutant: the fulfillment is appended but the pharmacy is not marked
fulfillPrescription_NoMark(sender, id) ==
    /\ prescriptions' =
          IF fulfillPrescriptionRevert(sender, id) = Ok
          THEN [prescriptions EXCEPT ![id] =
                   [@ EXCEPT !.fulfillments = Append(@,
                                 [pharmacyAddress |-> sender,
                                  pharmacyName |-> getPharmacyName(sender),
                                  fulfilledAt |-> now])]]
          ELSE prescriptions
    /\ UNCHANGED <<now, doctors, isVerifiedDoctor, verifiedPharmacies,
                   patientPrescriptions, doctorPrescriptions, issuedEvents>>

\* mutant: a fulfillment also closes the Record by moving its expiry to the block time
fulfillPrescription_ClosesRecord(sender, id) ==
    /\ prescriptions' =
          IF fulfillPrescriptionRevert(sender, id) = Ok
          THEN [prescriptions EXCEPT ![id] =
                   [@ EXCEPT !.fulfillments = Append(@,
                                 [pharmacyAddress |-> sender,
                                  pharmacyName |-> getPharmacyName(sender),
                                  fulfilledAt |-> now]),
                             !.hasFulfilled = [@ EXCEPT ![sender] = TRUE],
                             !.expiryDate = now]]
          ELSE prescriptions
    /\ UNCHANGED <<now, doctors, isVerifiedDoctor, verifiedPharmacies,
                   patientPrescriptions, doctorPrescriptions, issuedEvents>>

\* mutant: the newest fulfillment is put first
fulfillPrescription_Prepends(sender, id) ==
    /\ prescriptions' =
          IF fulfillPrescriptionRevert(sender, id) = Ok
          THEN [prescriptions EXCEPT ![id] =
                   [@ EXCEPT !.fulfillments =
                                 <<[pharmacyAddress |-> sender,
                                    pharmacyName |-> getPharmacyName(sender),
                                    fulfilledAt |-> now]>> \o @,
                             !.hasFulfilled = [@ EXCEPT ![sender] = TRUE]]]
          ELSE prescriptions
    /\ UNCHANGED <<now, doctors, isVerifiedDoctor, verifiedPharmacies,
                   patientPrescriptions, doctorPrescriptions, issuedEvents>>

\* mutant: the pharmacy's name is not copied into the fulfillment
fulfillPrescription_NameNotCaptured(sender, id) ==
    /\ prescriptions' =
          IF fulfillPrescriptionRevert(sender, id) = Ok
          THEN [prescriptions EXCEPT ![id] =
                   [@ EXCEPT !.fulfillments = Append(@,
                                 [pharmacyAddress |-> sender,
                                  pharmacyName |-> "",
                                  fulfilledAt |-> now]),
                             !.hasFulfilled = [@ EXCEPT ![sender] = TRUE]]]
          ELSE prescriptions
    /\ UNCHANGED <<now, doctors, isVerifiedDoctor, verifiedPharmacies,
                   patientPrescriptions, doctorPrescriptions, issuedEvents>>

fulfillPrescription(sender, id) ==
    /\ prescriptions' =
          IF fulfillPrescriptionRevert(sender, id) = Ok
          THEN [prescriptions EXCEPT ![id] =
                   [@ EXCEPT !.fulfillments = Append(@,
                                 [pharmacyAddress |-> sender,
                                  pharmacyName |-> getPharmacyName(sender),
                                  fulfilledAt |-> now]),
                             !.hasFulfilled = [@ EXCEPT ![sender] = TRUE]]]
          ELSE prescriptions
    /\ UNCHANGED <<now, doctors, isVerifiedDoctor, verifiedPharmacies,
                   patientPrescriptions, doctorPrescriptions, issuedEvents>>

(***************************************************************************)
(* PrescriptionRegistry: views                                             *)
(***************************************************************************)
\* mutant: the expiry second itself already counts as expired
verifyPrescription_StrictExpiry(id, expectedContentHash) ==
    /\ prescriptions[id].contentHash = expectedContentHash
    /\ prescriptions[id].doctor # ZeroAddress
    /\ now < prescriptions[id].expiryDate

verifyPrescription(id, expectedContentHash) ==
    /\ prescriptions[id].contentHash = expectedContentHash
    /\ prescriptions[id].doctor # ZeroAddress
    /\ now <= prescriptions[id].expiryDate

\* mutant: verification is a transaction that stamps the record it looked at
verifyPrescriptionCall_Stamps(id, expectedContentHash) ==
    /\ prescriptions' = [prescriptions EXCEPT ![id].issuedAt = now]
    /\ UNCHANGED <<now, doctors, isVerifiedDoctor, verifiedPharmacies,
                   patientPrescriptions, doctorPrescriptions, issuedEvents>>

\* a view runs as a static call: it cannot write
verifyPrescriptionCall(id, expectedContentHash) ==
    UNCHANGED <<now, doctors, isVerifiedDoctor, verifiedPharmacies, prescriptions,
                patientPrescriptions, doctorPrescriptions, issuedEvents>>

hasPharmacyFulfilled(id, a) == prescriptions[id].hasFulfilled[a]

getPatientPrescriptionIds(a) == patientPrescriptions[a]

getDoctorPrescriptionIds(a) == doctorPrescriptions[a]

(***************************************************************************)
(* Text.  The dashboard handles fingerprints as hex text: a string is a    *)
(* sequence of characters here.                                            *)
(***************************************************************************)
HashBytes == 32

LowerHex == <<"0", "1", "2", "3", "4", "5", "6", "7", "8", "9", "a", "b", "c", "d", "e", "f">>
UpperHex == <<"0", "1", "2", "3", "4", "5", "6", "7", "8", "9", "A", "B", "C", "D", "E", "F">>
HexChars == Range(LowerHex) \cup Range(UpperHex)

HexValue(c) == CHOOSE v \in 0..15 : LowerHex[v + 1] = c \/ UpperHex[v + 1] = c

\* the k lower-case hex digits of n, most significant first; the numbers that stand
\* for fingerprints here are below 16^7, so the digits above the seventh are zeros
HexDigits(n, k) ==
    [i \in 1..k |-> IF k - i >= 7 THEN "0" ELSE LowerHex[((n \div (16 ^ (k - i))) % 16) + 1]]

\* the text ethers hands back for a bytes32 result: 0x and 64 lower-case digits
hexlify(n) == <<"0", "x">> \o HexDigits(n, 2 * HashBytes)

RECURSIVE HexNumber(_)
HexNumber(s) ==
    IF s = <<>> THEN 0
    ELSE 16 * HexNumber(SubSeq(s, 1, Len(s) - 1)) + HexValue(s[Len(s)])

\* the bytes32 ethers encodes for a hex text argument: digits count, their case does not
toBytes32(v) == HexNumber(SubSeq(v, 3, Len(v)))

isHexString(v, length) ==
    /\ Len(v) >= 2
    /\ v[1] = "0"
    /\ v[2] = "x"
    /\ \A i \in 3..Len(v) : v[i] \in HexChars
    /\ Len(v) = 2 + 2 * length

Whitespace == {" "}

RECURSIVE trimStart(_)
trimStart(s) == IF s # <<>> /\ s[1] \in Whitespace THEN trimStart(Tail(s)) ELSE s

RECURSIVE trimEnd(_)
trimEnd(s) ==
    IF s # <<>> /\ s[Len(s)] \in Whitespace THEN trimEnd(SubSeq(s, 1, Len(s) - 1)) ELSE s

trim(s) == trimEnd(trimStart(s))

RECURSIVE split(_, _)
split(s, sep) ==
    IF \E i \in DOMAIN s : s[i] = sep
    THEN LET i == CHOOSE k \in DOMAIN s : s[k] = sep /\ \A j \in 1..(k - 1) : s[j] # sep
         IN <<SubSeq(s, 1, i - 1)>> \o split(SubSeq(s, i + 1, Len(s)), sep)
    ELSE <<s>>

\* a 32-byte hex text with the given last two digits
Hex32(hi, lo) == <<"0", "x">> \o [i \in 1..(2 * HashBytes - 2) |-> "0"] \o <<hi, lo>>

\* PatientDashboard.handleShareClick: the QR text is contentHash|contentHash
handleShareClick(contentHash) == contentHash \o <<"|">> \o contentHash

\* what may be pasted or scanned into the QR field
Payloads ==
    { handleShareClick(hexlify(171)),
      handleShareClick(Hex32("A", "B")),
      handleShareClick(hexlify(0)),
      hexlify(171) \o <<"|">> \o Hex32("A", "B"),
      <<" ">> \o handleShareClick(hexlify(171)) \o <<" ">>,
      handleShareClick(Hex32("g", "0")),
      handleShareClick(<<"0", "x", "a", "b">>),
      hexlify(171),
      <<" ">> }

(***************************************************************************)
(* ContractService                                                         *)
(***************************************************************************)
\* mutant: the existence check of getPrescriptionDetails is left out
getPrescriptionDetailsRevert_NoCheck(id) == Ok

\* what the contract's getPrescriptionDetails returns when it does not revert
getPrescriptionDetails(id) ==
    <<prescriptions[id].doctor, prescriptions[id].patient, prescriptions[id].contentHash,
      prescriptions[id].ipfsHash, prescriptions[id].issuedAt, prescriptions[id].expiryDate,
      prescriptions[id].fulfillments>>

getPrescriptionDetailsRevert(id) ==
    IF prescriptions[id].doctor = ZeroAddress THEN ErrNotExist ELSE Ok

DefaultDetails ==
    [doctor |-> ZeroAddress, patient |-> ZeroAddress, contentHash |-> hexlify(ZeroHash32),
     ipfsHash |-> "", issuedAt |-> 0, expiryDate |-> 0, fulfillments |-> <<>>]

\* rpcOk = FALSE: the call failed (provider down, timeout); any error gives the default
ContractService_getPrescriptionDetails(id, rpcOk) ==
    IF rpcOk /\ getPrescriptionDetailsRevert(id) = Ok
    THEN [doctor |-> prescriptions[id].doctor,
          patient |-> prescriptions[id].patient,
          contentHash |-> hexlify(prescriptions[id].contentHash),
          ipfsHash |-> prescriptions[id].ipfsHash,
          issuedAt |-> prescriptions[id].issuedAt,
          expiryDate |-> prescriptions[id].expiryDate,
          fulfillments |-> prescriptions[id].fulfillments]
    ELSE DefaultDetails

\* mutant: a failed lookup counts as a positive answer
ContractService_isVerifiedPharmacy_FailsOpen(a, rpcOk) ==
    ~rpcOk \/ isVerifiedPharmacy(a)

\* any error inside the wrapper is answered with false
ContractService_isVerifiedPharmacy(a, rpcOk) ==
    rpcOk /\ isVerifiedPharmacy(a)

ContractService_getPharmacyName(a, rpcOk) == IF rpcOk THEN getPharmacyName(a) ELSE ""

(***************************************************************************)
(* PharmacyDashboard: the session of one connected wallet                  *)
(***************************************************************************)
MsgLoggedIn == "Logged in as verified pharmacy"
MsgNotRegistered == "Your connected account is not registered as a verified pharmacy. Please register below."
MsgVerifying == "Verifying prescription..."
MsgNotLoggedIn == "Error verifying: You are not logged in as a verified pharmacy. Cannot verify prescriptions. Please register."
MsgPasteQR == "Error verifying: Please paste QR code data or scan a QR code."
MsgInvalidFormat == "Error verifying: Invalid QR code format."
MsgInvalidId == "Error verifying: Invalid Prescription ID (Content Hash) format from QR code"
MsgInvalidHash == "Error verifying: Invalid Content Hash format from QR code"
MsgQRMismatch == "Error verifying: QR code data mismatch. Both parts should be the same content hash."
MsgRpcError == "Error verifying: call failed"
MsgNotFound == "Prescription not found on blockchain (Content Hash does not exist)."
MsgValid == "Prescription is VALID!"
MsgValidAlready == "Prescription is VALID! This pharmacy has already fulfilled this prescription."
MsgUnknown == "Prescription is INVALID: Unknown reason."
MsgMismatch == "Prescription is INVALID: Content hash mismatch (PDF might have been altered or QR code is incorrect)."
MsgExpired == "Prescription is INVALID: Prescription has expired."

\* handleVerify's locals between its awaits
NoLocals ==
    [account |-> ZeroAddress, prescriptionIdFromQR |-> <<>>, contentHashFromQR |-> <<>>,
     blockchainPrescription |-> DefaultDetails]

InitSession ==
    /\ account = 2
    /\ qrCodeInput = <<>>
    /\ verificationStatus = "null"
    /\ verifiedPrescription = <<>>          \* null; <<p>> once set
    /\ isLoading = FALSE
    /\ statusMessage = ""
    /\ isPharmacyVerified = FALSE
    /\ pharmacyName = ""
    /\ pc = "idle"
    /\ hv = NoLocals

setQrCodeInput(text) ==
    /\ ~isLoading
    /\ qrCodeInput' = text
    /\ UNCHANGED <<account, verificationStatus, verifiedPrescription, isLoading,
                   statusMessage, isPharmacyVerified, pharmacyName, pc, hv>>

checkPharmacyStatus(rpcOk) ==
    /\ pc = "idle"
    /\ LET isVerified == ContractService_isVerifiedPharmacy(account, rpcOk)
       IN /\ isPharmacyVerified' = isVerified
          /\ pharmacyName' =
                IF isVerified THEN ContractService_getPharmacyName(account, rpcOk) ELSE ""
          /\ statusMessage' = IF isVerified THEN MsgLoggedIn ELSE MsgNotRegistered
    /\ isLoading' = FALSE
    /\ UNCHANGED <<account, qrCodeInput, verificationStatus, verifiedPrescription, pc, hv>>

\* handleVerify's scan of the fulfillment list for the connected account
fulfillmentsSome(fulfillments, a) ==
    \E i \in DOMAIN fulfillments : fulfillments[i].pharmacyAddress = a

\* mutant: the two halves of the QR text are not compared
handleVerify_Start_HalvesNotCompared ==
    /\ pc = "idle"
    /\ verifiedPrescription' = <<>>
    /\ LET parts == split(trim(qrCodeInput), "|")
           error == IF ~isPharmacyVerified THEN MsgNotLoggedIn
                    ELSE IF trim(qrCodeInput) = <<>> THEN MsgPasteQR
                    ELSE IF Len(parts) # 2 THEN MsgInvalidFormat
                    ELSE IF ~isHexString(parts[1], HashBytes) THEN MsgInvalidId
                    ELSE IF ~isHexString(parts[2], HashBytes) THEN MsgInvalidHash
                    ELSE Ok
       IN IF error # Ok
          THEN /\ verificationStatus' = "error"
               /\ statusMessage' = error
               /\ isLoading' = FALSE
               /\ pc' = "idle"
               /\ hv' = NoLocals
          ELSE /\ verificationStatus' = "loading"
               /\ statusMessage' = MsgVerifying
               /\ isLoading' = TRUE
               /\ pc' = "details"
               /\ hv' = [account |-> account,
                         prescriptionIdFromQR |-> parts[1],
                         contentHashFromQR |-> parts[2],
                         blockchainPrescription |-> DefaultDetails]
    /\ UNCHANGED <<account, qrCodeInput, isPharmacyVerified, pharmacyName>>

\* handleVerify up to its first await: the checks on the session and on the QR text
handleVerify_Start ==
    /\ pc = "idle"
    /\ verifiedPrescription' = <<>>
    /\ LET parts == split(trim(qrCodeInput), "|")
           error == IF ~isPharmacyVerified THEN MsgNotLoggedIn
                    ELSE IF trim(qrCodeInput) = <<>> THEN MsgPasteQR
                    ELSE IF Len(parts) # 2 THEN MsgInvalidFormat
                    ELSE IF ~isHexString(parts[1], HashBytes) THEN MsgInvalidId
                    ELSE IF ~isHexString(parts[2], HashBytes) THEN MsgInvalidHash
                    ELSE IF parts[1] # parts[2] THEN MsgQRMismatch
                    ELSE Ok
       IN IF error # Ok
          THEN /\ verificationStatus' = "error"
               /\ statusMessage' = error
               /\ isLoading' = FALSE
               /\ pc' = "idle"
               /\ hv' = NoLocals
          ELSE /\ verificationStatus' = "loading"
               /\ statusMessage' = MsgVerifying
               /\ isLoading' = TRUE
               /\ pc' = "details"
               /\ hv' = [account |-> account,
                         prescriptionIdFromQR |-> parts[1],
                         contentHashFromQR |-> parts[2],
                         blockchainPrescription |-> DefaultDetails]
    /\ UNCHANGED <<account, qrCodeInput, isPharmacyVerified, pharmacyName>>

\* the await of getPrescriptionDetails and the existence check on its answer
handleVerify_Details(rpcOk) ==
    /\ pc = "details"
    /\ LET blockchainPrescription ==
               ContractService_getPrescriptionDetails(toBytes32(hv.prescriptionIdFromQR), rpcOk)
       IN IF blockchainPrescription.doctor = ZeroAddress
          THEN /\ verificationStatus' = "invalid"
               /\ statusMessage' = MsgNotFound
               /\ isLoading' = FALSE
               /\ pc' = "idle"
               /\ hv' = NoLocals
          ELSE /\ pc' = "verify"
               /\ hv' = [hv EXCEPT !.blockchainPrescription = blockchainPrescription]
               /\ UNCHANGED <<verificationStatus, statusMessage, isLoading>>
    /\ UNCHANGED <<account, qrCodeInput, verifiedPrescription, isPharmacyVerified, pharmacyName>>

\* the await of verifyPrescription and what the handler makes of the answer;
\* clientNow is Date.now() / 1000, the browser's clock
handleVerify_Verify(rpcOk, clientNow) ==
    /\ pc = "verify"
    /\ LET blockchainPrescription == hv.blockchainPrescription
           isValidOnChain == verifyPrescription(toBytes32(hv.prescriptionIdFromQR),
                                                toBytes32(hv.contentHashFromQR))
           hasCurrentPharmacyFulfilled ==
               \E i \in DOMAIN blockchainPrescription.fulfillments :
                   blockchainPrescription.fulfillments[i].pharmacyAddress = hv.account
       IN IF ~rpcOk
          THEN /\ verificationStatus' = "error"
               /\ statusMessage' = MsgRpcError
               /\ UNCHANGED verifiedPrescription
          ELSE IF isValidOnChain
          THEN /\ verificationStatus' = IF hasCurrentPharmacyFulfilled THEN "invalid" ELSE "valid"
               /\ statusMessage' = IF hasCurrentPharmacyFulfilled THEN MsgValidAlready ELSE MsgValid
               /\ verifiedPrescription' =
                     <<[prescriptionId |-> hv.prescriptionIdFromQR,
                        doctor |-> blockchainPrescription.doctor,
                        patient |-> blockchainPrescription.patient,
                        contentHash |-> blockchainPrescription.contentHash,
                        ipfsHash |-> blockchainPrescription.ipfsHash,
                        issuedAt |-> blockchainPrescription.issuedAt,
                        expiryDate |-> blockchainPrescription.expiryDate,
                        fulfillments |-> blockchainPrescription.fulfillments,
                        hasCurrentPharmacyFulfilled |-> hasCurrentPharmacyFulfilled]>>
          ELSE /\ verificationStatus' = "invalid"
               /\ statusMessage' =
                     IF blockchainPrescription.contentHash # hv.contentHashFromQR THEN MsgMismatch
                     ELSE IF blockchainPrescription.expiryDate < clientNow THEN MsgExpired
                     ELSE MsgUnknown
               /\ UNCHANGED verifiedPrescription
    /\ isLoading' = FALSE
    /\ pc' = "idle"
    /\ hv' = NoLocals
    /\ UNCHANGED <<account, qrCodeInput, isPharmacyVerified, pharmacyName>>

\* handleFulfillPrescription's reports
MsgFulfillNotLoggedIn == "Error fulfilling prescription: Error: You are not logged in as a verified pharmacy. Cannot fulfill prescriptions."
MsgFulfillVerifyFirst == "Error fulfilling prescription: Error: Please verify a valid and active prescription first."
MsgFulfillAlready == "Error fulfilling prescription: Error: This pharmacy has already fulfilled this prescription."
MsgFulfillFailed == "Error fulfilling prescription: transaction failed"

\* the checks handleFulfillPrescription makes before it sends anything
handleFulfillPrescriptionError ==
    IF ~isPharmacyVerified THEN MsgFulfillNotLoggedIn
    ELSE IF verifiedPrescription = <<>> \/ verificationStatus # "valid" THEN MsgFulfillVerifyFirst
    ELSE IF verifiedPrescription[1].hasCurrentPharmacyFulfilled THEN MsgFulfillAlready
    ELSE Ok

\* what can become of the transaction: "down", it never reaches the chain; "lost", it is
\* mined but the wait for its receipt fails; "ok", the dashboard learns its outcome
TxFates == {"down", "lost", "ok"}

\* handleFulfillPrescription: the checks, the transaction signed by the connected
\* account, and on success the start of the handleVerify it runs again
handleFulfillPrescription(fate) ==
    /\ pc = "idle"
    /\ IF handleFulfillPrescriptionError # Ok
       THEN /\ statusMessage' = handleFulfillPrescriptionError
            /\ isLoading' = FALSE
            /\ UNCHANGED <<account, qrCodeInput, verificationStatus, verifiedPrescription,
                           isPharmacyVerified, pharmacyName, pc, hv>>
            /\ UNCHANGED chainVars
       ELSE LET id == toBytes32(verifiedPrescription[1].prescriptionId)
            IN /\ IF fate = "down" THEN UNCHANGED chainVars ELSE fulfillPrescription(account, id)
               /\ IF fate = "ok" /\ fulfillPrescriptionRevert(account, id) = Ok
                  THEN handleVerify_Start
                  ELSE /\ statusMessage' = MsgFulfillFailed
                       /\ isLoading' = FALSE
                       /\ UNCHANGED <<account, qrCodeInput, verificationStatus,
                                      verifiedPrescription, isPharmacyVerified, pharmacyName,
                                      pc, hv>>

\* mutant: the dashboard outlives the account change and keeps what it had verified
accountsChanged_KeepsVerdict(a) ==
    /\ account' = a
    /\ UNCHANGED <<qrCodeInput, verificationStatus, verifiedPrescription, isLoading,
                   statusMessage, isPharmacyVerified, pharmacyName, pc, hv>>

\* App: the wallet reports another account.  connectWallet sets App's state, App renders
\* again, and DashboardWrapper, a component defined inside App's body, is a new component
\* type on every render of App: the dashboard below it is unmounted and mounted afresh
accountsChanged(a) ==
    /\ account' = a
    /\ qrCodeInput' = <<>>
    /\ verificationStatus' = "null"
    /\ verifiedPrescription' = <<>>
    /\ isLoading' = FALSE
    /\ statusMessage' = ""
    /\ isPharmacyVerified' = FALSE
    /\ pharmacyName' = ""
    /\ pc' = "idle"
    /\ hv' = NoLocals

\* the id and the expected hash handleVerify passes to the contract
HvId == toBytes32(hv.prescriptionIdFromQR)

HvExpected == toBytes32(hv.contentHashFromQR)

(***************************************************************************)
(* DoctorDashboard: the issuing flow.  A document is what jsPDF is given    *)
(* to draw: the prescription's text and the QR code's text.                 *)
(***************************************************************************)
Forms == {"Rx"}

\* 'TEMP_ID_FOR_HASH_CALC', the placeholder id of the first rendering
TempId == <<"T", "E", "M", "P">>

\* PDFService.generatePrescriptionPDF: the QR code holds prescriptionId|contentHash
generatePrescriptionPDF(form, prescriptionId, contentHash) ==
    [text |-> form, qrCodeData |-> prescriptionId \o <<"|">> \o contentHash]

\* the two renderings handleIssuePrescription makes of a form
TempPdf(form) == generatePrescriptionPDF(form, TempId, hexlify(ZeroHash32))

FinalPdf(form, contentHash) ==
    generatePrescriptionPDF(form, hexlify(contentHash), hexlify(contentHash))

\* ethers.keccak256 on the documents that occur: different bytes, different hashes
keccak256(pdf) == IF pdf = TempPdf("Rx") THEN 171 ELSE 172

Pdfs == {TempPdf(f) : f \in Forms} \cup {FinalPdf(f, keccak256(TempPdf(f))) : f \in Forms}

\* the backend pins the uploaded bytes as they are; the locator is their content address
pinFileToIPFS(pdf) == IF pdf = FinalPdf("Rx", 171) THEN "QmA" ELSE "QmT"

\* the bytes the gateway serves under a locator
ipfsCat(ipfsHash) == CHOOSE pdf \in Pdfs : pinFileToIPFS(pdf) = ipfsHash

\* handleIssuePrescription: hash the first rendering, render again with the hash in
\* the QR code, upload the second rendering, record the hash and the locator
handleIssuePrescription(sender, patient, form, expiryDate) ==
    LET contentHash == keccak256(TempPdf(form))
        ipfsHash == pinFileToIPFS(FinalPdf(form, contentHash))
    IN issuePrescription(sender, patient, contentHash, ipfsHash, expiryDate)

handleIssuePrescriptionRevert(sender, patient, form, expiryDate) ==
    LET contentHash == keccak256(TempPdf(form))
        ipfsHash == pinFileToIPFS(FinalPdf(form, contentHash))
    IN issuePrescriptionRevert(sender, patient, contentHash, ipfsHash, expiryDate)

(***************************************************************************)
(* Specifications.  Every account may send every transaction; the input    *)
(* sets say which accounts and fingerprints each specification uses.       *)
(***************************************************************************)
Init ==
    /\ InitChain
    /\ ret = Outcome("constructor", Ok)
    /\ InitSession

\* Spec: one issuer, two dispensers, one fingerprint
Next ==
    \/ Tick /\ UNCHANGED <<ret, sessionVars>>
    \/ \E a \in Senders, n \in {"A", "B"} :
          registerPharmacy(a, n)
          /\ ret' = Outcome("registerPharmacy", registerPharmacyRevert(a, n))
          /\ UNCHANGED sessionVars
    \/ \E a \in Senders :
          removePharmacy(a)
          /\ ret' = Outcome("removePharmacy", removePharmacyRevert(a))
          /\ UNCHANGED sessionVars
    \/ \E a \in {1}, n \in DoctorNames :
          registerDoctor(a, n, "L", "S")
          /\ ret' = Outcome("registerDoctor", registerDoctorRevert(a))
          /\ UNCHANGED sessionVars
    \/ \E s \in {1}, a \in {1} :
          deactivateDoctor(s, a)
          /\ ret' = Outcome("deactivateDoctor", deactivateDoctorRevert(s, a))
          /\ UNCHANGED sessionVars
    \/ \E s \in {1}, p \in {2}, h \in {171}, l \in Locators, e \in Expiries :
          issuePrescription(s, p, h, l, e)
          /\ ret' = Outcome("issuePrescription", issuePrescriptionRevert(s, p, h, l, e))
          /\ UNCHANGED sessionVars
    \/ \E s \in Senders, h \in Hashes :
          fulfillPrescription(s, h)
          /\ ret' = Outcome("fulfillPrescription", fulfillPrescriptionRevert(s, h))
          /\ UNCHANGED sessionVars

Spec == Init /\ [][Next]_vars

\* SpecIssue: two issuers racing for one fingerprint, one dispenser
NextIssue ==
    \/ Tick /\ UNCHANGED <<ret, sessionVars>>
    \/ \E a \in {2}, n \in {"A"} :
          registerPharmacy(a, n)
          /\ ret' = Outcome("registerPharmacy", registerPharmacyRevert(a, n))
          /\ UNCHANGED sessionVars
    \/ \E a \in {2} :
          removePharmacy(a)
          /\ ret' = Outcome("removePharmacy", removePharmacyRevert(a))
          /\ UNCHANGED sessionVars
    \/ \E a \in Senders, n \in DoctorNames :
          registerDoctor(a, n, "L", "S")
          /\ ret' = Outcome("registerDoctor", registerDoctorRevert(a))
          /\ UNCHANGED sessionVars
    \/ \E s \in Senders, a \in Senders :
          deactivateDoctor(s, a)
          /\ ret' = Outcome("deactivateDoctor", deactivateDoctorRevert(s, a))
          /\ UNCHANGED sessionVars
    \/ \E s \in Senders, p \in Senders, h \in {171}, l \in Locators, e \in Expiries :
          issuePrescription(s, p, h, l, e)
          /\ ret' = Outcome("issuePrescription", issuePrescriptionRevert(s, p, h, l, e))
          /\ UNCHANGED sessionVars
    \/ \E s \in {2}, h \in {171} :
          fulfillPrescription(s, h)
          /\ ret' = Outcome("fulfillPrescription", fulfillPrescriptionRevert(s, h))
          /\ UNCHANGED sessionVars

SpecIssue == Init /\ [][NextIssue]_vars

\* SpecIndex: one issuer, two fingerprints, two recipients, one dispenser
NextIndex ==
    \/ Tick /\ UNCHANGED <<ret, sessionVars>>
    \/ \E a \in {2}, n \in {"A"} :
          registerPharmacy(a, n)
          /\ ret' = Outcome("registerPharmacy", registerPharmacyRevert(a, n))
          /\ UNCHANGED sessionVars
    \/ \E a \in {2} :
          removePharmacy(a)
          /\ ret' = Outcome("removePharmacy", removePharmacyRevert(a))
          /\ UNCHANGED sessionVars
    \/ \E a \in {1}, n \in DoctorNames :
          registerDoctor(a, n, "L", "S")
          /\ ret' = Outcome("registerDoctor", registerDoctorRevert(a))
          /\ UNCHANGED sessionVars
    \/ \E s \in {1}, a \in {1} :
          deactivateDoctor(s, a)
          /\ ret' = Outcome("deactivateDoctor", deactivateDoctorRevert(s, a))
          /\ UNCHANGED sessionVars
    \/ \E s \in Senders, p \in Senders, h \in Hashes, l \in Locators, e \in Expiries :
          issuePrescription(s, p, h, l, e)
          /\ ret' = Outcome("issuePrescription", issuePrescriptionRevert(s, p, h, l, e))
          /\ UNCHANGED sessionVars
    \/ \E s \in {2}, h \in {171} :
          fulfillPrescription(s, h)
          /\ ret' = Outcome("fulfillPrescription", fulfillPrescriptionRevert(s, h))
          /\ UNCHANGED sessionVars

SpecIndex == Init /\ [][NextIndex]_vars

\* SpecRead: the views, against a ledger with one issuer and one dispenser
NextRead ==
    \/ Tick /\ UNCHANGED <<ret, sessionVars>>
    \/ \E a \in {2}, n \in {"A"} :
          registerPharmacy(a, n)
          /\ ret' = Outcome("registerPharmacy", registerPharmacyRevert(a, n))
          /\ UNCHANGED sessionVars
    \/ \E a \in {2} :
          removePharmacy(a)
          /\ ret' = Outcome("removePharmacy", removePharmacyRevert(a))
          /\ UNCHANGED sessionVars
    \/ \E a \in {1}, n \in DoctorNames :
          registerDoctor(a, n, "L", "S")
          /\ ret' = Outcome("registerDoctor", registerDoctorRevert(a))
          /\ UNCHANGED sessionVars
    \/ \E s \in {1}, a \in {1} :
          deactivateDoctor(s, a)
          /\ ret' = Outcome("deactivateDoctor", deactivateDoctorRevert(s, a))
          /\ UNCHANGED sessionVars
    \/ \E s \in {1}, p \in {2}, h \in {171}, l \in Locators, e \in Expiries :
          issuePrescription(s, p, h, l, e)
          /\ ret' = Outcome("issuePrescription", issuePrescriptionRevert(s, p, h, l, e))
          /\ UNCHANGED sessionVars
    \/ \E s \in {2}, h \in Hashes :
          fulfillPrescription(s, h)
          /\ ret' = Outcome("fulfillPrescription", fulfillPrescriptionRevert(s, h))
          /\ UNCHANGED sessionVars
    \/ \E h \in Hashes, x \in Hashes :
          verifyPrescriptionCall(h, x)
          /\ ret' = ViewOutcome("verifyPrescription", <<h, x>>, verifyPrescription(h, x))
          /\ UNCHANGED sessionVars

SpecRead == Init /\ [][NextRead]_vars

\* SpecDash: one pharmacy's dashboard session against a ledger with one fingerprint
NextDash ==
    \/ Tick /\ UNCHANGED <<ret, sessionVars>>
    \/ \E a \in Senders, n \in {"A"} :
          registerPharmacy(a, n) /\ UNCHANGED <<ret, sessionVars>>
    \/ \E a \in {2} :
          removePharmacy(a) /\ UNCHANGED <<ret, sessionVars>>
    \/ \E a \in {1}, n \in DoctorNames :
          registerDoctor(a, n, "L", "S") /\ UNCHANGED <<ret, sessionVars>>
    \/ \E s \in {1}, p \in {2}, h \in {171}, l \in Locators, e \in Expiries :
          issuePrescription(s, p, h, l, e) /\ UNCHANGED <<ret, sessionVars>>
    \/ \E s \in Senders, h \in {171} :
          fulfillPrescription(s, h) /\ UNCHANGED <<ret, sessionVars>>
    \/ \E text \in Payloads :
          setQrCodeInput(text) /\ UNCHANGED <<ret, chainVars>>
    \/ \E rpcOk \in BOOLEAN :
          checkPharmacyStatus(rpcOk) /\ UNCHANGED <<ret, chainVars>>
    \/ handleVerify_Start /\ UNCHANGED <<ret, chainVars>>
    \/ \E rpcOk \in BOOLEAN :
          handleVerify_Details(rpcOk) /\ UNCHANGED <<ret, chainVars>>
    \/ \E rpcOk \in BOOLEAN, clientNow \in Times :
          handleVerify_Verify(rpcOk, clientNow) /\ UNCHANGED <<ret, chainVars>>

SpecDash == Init /\ [][NextDash]_vars

\* SpecFulfill: two fingerprints, each fulfilled by two dispensers
NextFulfill ==
    \/ Tick /\ UNCHANGED <<ret, sessionVars>>
    \/ \E a \in Senders, n \in {"A"} :
          registerPharmacy(a, n)
          /\ ret' = Outcome("registerPharmacy", registerPharmacyRevert(a, n))
          /\ UNCHANGED sessionVars
    \/ \E a \in {1}, n \in DoctorNames :
          registerDoctor(a, n, "L", "S")
          /\ ret' = Outcome("registerDoctor", registerDoctorRevert(a))
          /\ UNCHANGED sessionVars
    \/ \E s \in {1}, p \in {2}, h \in Hashes, l \in Locators, e \in Expiries :
          issuePrescription(s, p, h, l, e)
          /\ ret' = Outcome("issuePrescription", issuePrescriptionRevert(s, p, h, l, e))
          /\ UNCHANGED sessionVars
    \/ \E s \in Senders, h \in Hashes :
          fulfillPrescription(s, h)
          /\ ret' = Outcome("fulfillPrescription", fulfillPrescriptionRevert(s, h))
          /\ UNCHANGED sessionVars

SpecFulfill == Init /\ [][NextFulfill]_vars

\* SpecSession: the dashboard with its fulfillment button and a wallet that can switch
\* accounts, beside other senders' transactions.  ret holds what the session's most
\* recent completed handleVerify found: the contract's answer, and the id, the account
\* and whether the details read showed a fulfillment by that account
VerifyFound(valid, args) ==
    [op |-> "handleVerify", revert |-> Ok, value |-> valid, args |-> args, at |-> 0]

SessionPayloads == {handleShareClick(hexlify(171)), handleShareClick(hexlify(0))}

NextSession ==
    \/ Tick /\ UNCHANGED <<ret, sessionVars>>
    \/ \E a \in Senders, n \in {"A"} :
          registerPharmacy(a, n) /\ UNCHANGED <<ret, sessionVars>>
    \/ \E a \in {1}, n \in DoctorNames :
          registerDoctor(a, n, "L", "S") /\ UNCHANGED <<ret, sessionVars>>
    \/ \E s \in {1}, p \in {2}, h \in {171}, l \in Locators, e \in Expiries :
          issuePrescription(s, p, h, l, e) /\ UNCHANGED <<ret, sessionVars>>
    \/ \E s \in Senders, h \in {171} :
          fulfillPrescription(s, h) /\ UNCHANGED <<ret, sessionVars>>
    \/ \E text \in SessionPayloads :
          setQrCodeInput(text) /\ UNCHANGED <<ret, chainVars>>
    \/ \E rpcOk \in BOOLEAN :
          checkPharmacyStatus(rpcOk) /\ UNCHANGED <<ret, chainVars>>
    \/ /\ handleVerify_Start
       /\ ret' = IF pc' = "idle" THEN VerifyFound(FALSE, <<>>) ELSE ret
       /\ UNCHANGED chainVars
    \/ \E rpcOk \in BOOLEAN :
          /\ handleVerify_Details(rpcOk)
          /\ ret' = IF pc' = "idle" THEN VerifyFound(FALSE, <<HvId, hv.account, FALSE>>) ELSE ret
          /\ UNCHANGED chainVars
    \/ \E rpcOk \in BOOLEAN, clientNow \in Times :
          /\ handleVerify_Verify(rpcOk, clientNow)
          /\ ret' = VerifyFound(rpcOk /\ verifyPrescription(HvId, HvExpected),
                                <<HvId, hv.account,
                                  fulfillmentsSome(hv.blockchainPrescription.fulfillments,
                                                   hv.account)>>)
          /\ UNCHANGED chainVars
    \/ \E fate \in TxFates :
          /\ handleFulfillPrescription(fate)
          /\ ret' = IF verificationStatus = "valid" /\ verificationStatus' = "error"
                    THEN VerifyFound(FALSE, <<>>) ELSE ret
    \/ \E a \in Senders :
          accountsChanged(a) /\ ret' = Outcome("mount", Ok) /\ UNCHANGED chainVars

SpecSession == Init /\ [][NextSession]_vars

\* SpecRace: two issuers racing for one fingerprint, each naming itself as the
\* recipient so that the racers differ in every field, and one pharmacy with two sessions:
\* the dashboard and another session of the same account whose transactions arrive as
\* they come.  ret holds the outcome of the dashboard's own fulfillPrescription
NextRace ==
    \/ Tick /\ UNCHANGED <<ret, sessionVars>>
    \/ \E a \in {2}, n \in {"A"} :
          registerPharmacy(a, n) /\ UNCHANGED <<ret, sessionVars>>
    \/ \E a \in {2} :
          removePharmacy(a) /\ UNCHANGED <<ret, sessionVars>>
    \/ \E a \in Senders, n \in DoctorNames :
          registerDoctor(a, n, "L", "S") /\ UNCHANGED <<ret, sessionVars>>
    \/ \E s \in Senders : \E p \in {s}, h \in {171}, l \in Locators, e \in Expiries :
          issuePrescription(s, p, h, l, e) /\ UNCHANGED <<ret, sessionVars>>
    \/ \E s \in {2}, h \in {171} :
          fulfillPrescription(s, h) /\ UNCHANGED <<ret, sessionVars>>
    \/ \E text \in {handleShareClick(hexlify(171))} :
          setQrCodeInput(text) /\ UNCHANGED <<ret, chainVars>>
    \/ \E rpcOk \in {TRUE} :
          checkPharmacyStatus(rpcOk) /\ UNCHANGED <<ret, chainVars>>
    \/ handleVerify_Start /\ UNCHANGED <<ret, chainVars>>
    \/ \E rpcOk \in {TRUE} :
          handleVerify_Details(rpcOk) /\ UNCHANGED <<ret, chainVars>>
    \/ \E rpcOk \in {TRUE}, clientNow \in {now} :
          handleVerify_Verify(rpcOk, clientNow) /\ UNCHANGED <<ret, chainVars>>
    \/ \E fate \in {"ok"} :
          /\ handleFulfillPrescription(fate)
          /\ ret' = IF handleFulfillPrescriptionError = Ok
                    THEN Outcome("fulfillPrescription",
                                 fulfillPrescriptionRevert(account,
                                     toBytes32(verifiedPrescription[1].prescriptionId)))
                    ELSE ret

SpecRace == Init /\ [][NextRace]_vars

\* SpecDoctor: the DoctorRegistry with every account sending, and issuing on top of it.
\* ret also tells who sent the transaction and whom it was about
SentOutcome(op, sender, about, revert) ==
    [op |-> op, revert |-> revert, value |-> FALSE, args |-> <<sender, about>>, at |-> 0]

NextDoctor ==
    \/ Tick /\ UNCHANGED <<ret, sessionVars>>
    \/ \E s \in Senders, a \in Senders, n \in {"Dr", "Dx"} :
          registerDoctor(a, n, "L", "S")
          /\ ret' = SentOutcome("registerDoctor", s, a, registerDoctorRevert(a))
          /\ UNCHANGED sessionVars
    \/ \E s \in Senders, a \in Senders :
          deactivateDoctor(s, a)
          /\ ret' = SentOutcome("deactivateDoctor", s, a, deactivateDoctorRevert(s, a))
          /\ UNCHANGED sessionVars
    \/ \E s \in Senders, p \in {2}, h \in {171}, l \in Locators, e \in Expiries :
          issuePrescription(s, p, h, l, e)
          /\ ret' = SentOutcome("issuePrescription", s, p,
                                issuePrescriptionRevert(s, p, h, l, e))
          /\ UNCHANGED sessionVars

SpecDoctor == Init /\ [][NextDoctor]_vars

\* SpecIssueFlow: Records issued through the doctor dashboard
NextIssueFlow ==
    \/ Tick /\ UNCHANGED <<ret, sessionVars>>
    \/ \E a \in {2}, n \in {"A"} :
          registerPharmacy(a, n)
          /\ ret' = Outcome("registerPharmacy", registerPharmacyRevert(a, n))
          /\ UNCHANGED sessionVars
    \/ \E a \in Senders, n \in DoctorNames :
          registerDoctor(a, n, "L", "S")
          /\ ret' = Outcome("registerDoctor", registerDoctorRevert(a))
          /\ UNCHANGED sessionVars
    \/ \E s \in Senders, p \in Senders, f \in Forms, e \in Expiries :
          handleIssuePrescription(s, p, f, e)
          /\ ret' = Outcome("issuePrescription", handleIssuePrescriptionRevert(s, p, f, e))
          /\ UNCHANGED sessionVars
    \/ \E s \in {2}, h \in {171} :
          fulfillPrescription(s, h)
          /\ ret' = Outcome("fulfillPrescription", fulfillPrescriptionRevert(s, h))
          /\ UNCHANGED sessionVars

SpecIssueFlow == Init /\ [][NextIssueFlow]_vars

(***************************************************************************)
(* What the claims speak of                                                *)
(***************************************************************************)
\* a Record with this id exists: its PrescriptionIssued event was emitted
Issued(f) == \E i \in DOMAIN issuedEvents : issuedEvents[i].prescriptionId = f

TimesIssued(f) == Cardinality({i \in DOMAIN issuedEvents : issuedEvents[i].prescriptionId = f})

FulfilledBy(id, p) ==
    {i \in DOMAIN prescriptions[id].fulfillments :
        prescriptions[id].fulfillments[i].pharmacyAddress = p}

HasEntry(id, p) == FulfilledBy(id, p) # {}

Unexpired(id) == now <= prescriptions[id].expiryDate

IdsIssuedTo(a) ==
    LET ToA(e) == e.patient = a
        t == SelectSeq(issuedEvents, ToA)
    IN [i \in 1..Len(t) |-> t[i].prescriptionId]

IdsIssuedBy(a) ==
    LET ByA(e) == e.doctor = a
        t == SelectSeq(issuedEvents, ByA)
    IN [i \in 1..Len(t) |-> t[i].prescriptionId]

(***************************************************************************)
(* C1: once a fingerprint has been issued, an Issue of the same            *)
(* fingerprint by any verified doctor, for any recipient and locator and   *)
(* any future expiry, reverts as a duplicate; no fingerprint is issued     *)
(* twice.                                                                  *)
(***************************************************************************)
C1_IssueOncePerFingerprint ==
    \A f \in Hashes :
        /\ TimesIssued(f) <= 1
        /\ Issued(f) =>
              \A s \in Senders, p \in Addresses, l \in Locators, e \in Expiries :
                  (isVerifiedDoctor[s] /\ e > now)
                      => issuePrescriptionRevert(s, p, f, l, e) = ErrDuplicate

C1_Witness ==
    /\ Issued(171)
    /\ \A s \in Senders : isVerifiedDoctor[s]
    /\ ret.op = "issuePrescription"
    /\ ret.revert = ErrDuplicate

(***************************************************************************)
(* C2: no Record ever holds two fulfillments by the same party, whatever   *)
(* fulfillments, removals and re-registrations have happened.              *)
(***************************************************************************)
C2_OneFulfillmentPerParty ==
    \A id \in Hashes, p \in Addresses : Cardinality(FulfilledBy(id, p)) <= 1

\* a pharmacy that fulfilled as "A", was removed, came back as "B" and tried again
C2_Witness ==
    /\ \E p \in Senders :
          /\ HasEntry(171, p)
          /\ \A i \in FulfilledBy(171, p) :
                prescriptions[171].fulfillments[i].pharmacyName # verifiedPharmacies[p]
          /\ isVerifiedPharmacy(p)
    /\ ret.op = "fulfillPrescription"
    /\ ret.revert = ErrAlreadyFulfilled

(***************************************************************************)
(* C3 as stated: once party p has fulfilled id, a further Fulfill(id, p)   *)
(* reverts with the already-fulfilled reason.                              *)
(***************************************************************************)
C3_SecondFulfillAlwaysAlreadyFulfilled ==
    \A id \in Hashes, p \in Senders :
        HasEntry(id, p) => fulfillPrescriptionRevert(p, id) = ErrAlreadyFulfilled

(***************************************************************************)
(* C3 amended: once party p has fulfilled id, a further Fulfill(id, p)     *)
(* always reverts and leaves the Record as it is; the reason is the        *)
(* already-fulfilled one while p is still a verified pharmacy and the      *)
(* Record is unexpired (otherwise not-a-pharmacy, else expired); a         *)
(* different verified pharmacy that has not fulfilled id succeeds while    *)
(* the Record is unexpired.                                                *)
(***************************************************************************)
C3_SecondFulfillFails ==
    /\ [](\A id \in Hashes, p \in Senders :
            HasEntry(id, p) =>
              /\ fulfillPrescriptionRevert(p, id) =
                    IF ~isVerifiedPharmacy(p) THEN ErrNotPharmacy
                    ELSE IF ~Unexpired(id) THEN ErrExpired
                    ELSE ErrAlreadyFulfilled
              /\ \A q \in Senders \ {p} :
                    (isVerifiedPharmacy(q) /\ ~HasEntry(id, q) /\ Unexpired(id))
                        => fulfillPrescriptionRevert(q, id) = Ok)
    /\ [][\A id \in Hashes, p \in Senders :
            (HasEntry(id, p) /\ fulfillPrescription(p, id))
                => prescriptions' = prescriptions]_vars

C3_Witness ==
    /\ Len(prescriptions[171].fulfillments) = 2
    /\ Unexpired(171)
    /\ ret.op = "fulfillPrescription"
    /\ ret.revert = ErrAlreadyFulfilled

(***************************************************************************)
(* C4: a Fulfill by an account that is not a verified pharmacy at the      *)
(* time of the call reverts as unauthorized and appends nothing, also      *)
(* when the account was verified earlier; and every fulfillment that is    *)
(* appended is appended at the end, by an account that is a verified       *)
(* pharmacy in the state the call runs in, with that block's time.         *)
(***************************************************************************)
C4_AuthorizationRechecked ==
    /\ [](\A s \in Senders, id \in Hashes :
            ~isVerifiedPharmacy(s) => fulfillPrescriptionRevert(s, id) = ErrNotPharmacy)
    /\ [][\A id \in Hashes :
            /\ \A s \in Senders :
                  (~isVerifiedPharmacy(s) /\ fulfillPrescription(s, id))
                      => prescriptions' = prescriptions
            /\ prescriptions'[id].fulfillments # prescriptions[id].fulfillments =>
                  \E s \in Senders :
                      /\ isVerifiedPharmacy(s)
                      /\ prescriptions'[id].fulfillments =
                            Append(prescriptions[id].fulfillments,
                                   [pharmacyAddress |-> s,
                                    pharmacyName |-> verifiedPharmacies[s],
                                    fulfilledAt |-> now])]_vars

\* both pharmacies fulfilled while registered, were removed, and one tried again
C4_Witness ==
    /\ \A s \in Senders : HasEntry(171, s) /\ ~isVerifiedPharmacy(s)
    /\ ret.op = "fulfillPrescription"
    /\ ret.revert = ErrNotPharmacy

(***************************************************************************)
(* C5: for an existing Record and a verified pharmacy that has not         *)
(* fulfilled it, Fulfill goes through at now = expiryDate and reverts as   *)
(* expired at every later time; every fulfillment lies between the         *)
(* Record's issue time and its expiry.                                     *)
(***************************************************************************)
C5_ExpiryBoundary ==
    \A id \in Hashes :
        /\ \A s \in Senders :
              (Issued(id) /\ isVerifiedPharmacy(s) /\ ~HasEntry(id, s)) =>
                  /\ now = prescriptions[id].expiryDate
                        => fulfillPrescriptionRevert(s, id) = Ok
                  /\ now > prescriptions[id].expiryDate
                        => fulfillPrescriptionRevert(s, id) = ErrExpired
        /\ \A i \in DOMAIN prescriptions[id].fulfillments :
              /\ prescriptions[id].issuedAt <= prescriptions[id].fulfillments[i].fulfilledAt
              /\ prescriptions[id].fulfillments[i].fulfilledAt <= prescriptions[id].expiryDate

\* one pharmacy fulfilled in the expiry second, another was refused a second later
C5_Witness ==
    /\ \E i \in DOMAIN prescriptions[171].fulfillments :
          prescriptions[171].fulfillments[i].fulfilledAt = prescriptions[171].expiryDate
    /\ now = prescriptions[171].expiryDate + 1
    /\ ret.op = "fulfillPrescription"
    /\ ret.revert = ErrExpired

(***************************************************************************)
(* C6: verifyPrescription answers true exactly when a Record with the      *)
(* claimed id has been issued, its stored contentHash equals the expected  *)
(* one and now <= expiryDate; so it is true in the expiry second and never *)
(* true for an id that was not issued, the zero hash included.             *)
(***************************************************************************)
C6_VerifyValidIff ==
    \A id \in Hashes, x \in Hashes :
        verifyPrescription(id, x) <=>
            (Issued(id) /\ prescriptions[id].contentHash = x
                        /\ now <= prescriptions[id].expiryDate)

\* a verification that answered true in the expiry second
C6_Witness ==
    /\ ret.op = "verifyPrescription"
    /\ ret.value
    /\ ret.at = now
    /\ now = prescriptions[ret.args[1]].expiryDate

(***************************************************************************)
(* C7 as stated: when a verification whose reads went through does not     *)
(* come out valid, the dashboard reports not-found exactly when no Record  *)
(* has the claimed id, otherwise content-mismatch exactly when the stored  *)
(* fingerprint differs from the one in the QR text, otherwise expired,     *)
(* and then now > expiryDate; it reports nothing else.                     *)
(***************************************************************************)
C7_NonValidVerdictClassified ==
    [][/\ handleVerify_Details(TRUE) =>
             (statusMessage' = MsgNotFound <=> prescriptions[HvId].doctor = ZeroAddress)
       /\ ((\E c \in Times : handleVerify_Verify(TRUE, c))
              /\ statusMessage' \notin {MsgValid, MsgValidAlready}) =>
             /\ statusMessage' \in {MsgMismatch, MsgExpired}
             /\ statusMessage' = MsgMismatch <=> prescriptions[HvId].contentHash # HvExpected
             /\ statusMessage' = MsgExpired => now > prescriptions[HvId].expiryDate]_vars

C10_IndexConsistency ==
    \A a \in Addresses :
        /\ getPatientPrescriptionIds(a) = IdsIssuedTo(a)
        /\ getDoctorPrescriptionIds(a) = IdsIssuedBy(a)
        /\ Range(getPatientPrescriptionIds(a)) =
              {h \in Hashes : prescriptions[h].doctor # ZeroAddress
                              /\ prescriptions[h].patient = a}
        /\ Range(getDoctorPrescriptionIds(a)) =
              {h \in Hashes : prescriptions[h].doctor = a /\ a # ZeroAddress}
        /\ Cardinality(Range(getPatientPrescriptionIds(a))) = Len(getPatientPrescriptionIds(a))
        /\ Cardinality(Range(getDoctorPrescriptionIds(a))) = Len(getDoctorPrescriptionIds(a))

\* two Records for one patient, one of them fulfilled, then a refused duplicate
C10_Witness ==
    /\ \E a \in Senders : Len(getPatientPrescriptionIds(a)) = 2
    /\ \E h \in Hashes : prescriptions[h].fulfillments # <<>>
    /\ ret.op = "issuePrescription"
    /\ ret.revert = ErrDuplicate

(***************************************************************************)
(* C11: an issuePrescription that goes through writes the Record and       *)
(* appends its id to the patient's and to the doctor's index in the same   *)
(* step; one that reverts (not a doctor, invalid expiry, duplicate) leaves *)
(* the Records, their fulfillments and both indexes as they were; and in   *)
(* every state a Record exists exactly when its id is in its patient's     *)
(* index, and exactly when it is in its doctor's index.                    *)
(***************************************************************************)
\* the Record with id h is written in this step
Created(h) == prescriptions[h].doctor = ZeroAddress /\ prescriptions'[h].doctor # ZeroAddress

C11_IssueAtomic ==
    /\ [][/\ (ret'.op = "issuePrescription" /\ ret'.revert # Ok) =>
                UNCHANGED <<prescriptions, patientPrescriptions, doctorPrescriptions>>
          /\ \A h \in Hashes :
                Created(h) =>
                   /\ ret'.op = "issuePrescription"
                   /\ ret'.revert = Ok
                   /\ prescriptions'[h].fulfillments = <<>>
                   /\ \A g \in Hashes \ {h} : prescriptions'[g] = prescriptions[g]
                   /\ patientPrescriptions' =
                         [patientPrescriptions EXCEPT ![prescriptions'[h].patient] = Append(@, h)]
                   /\ doctorPrescriptions' =
                         [doctorPrescriptions EXCEPT ![prescriptions'[h].doctor] = Append(@, h)]
          /\ (patientPrescriptions' # patientPrescriptions
                 \/ doctorPrescriptions' # doctorPrescriptions) =>
                \E h \in Hashes : Created(h)]_vars
    /\ [](\A h \in Hashes, a \in Addresses :
            /\ (prescriptions[h].doctor # ZeroAddress /\ prescriptions[h].patient = a)
                  <=> h \in Range(patientPrescriptions[a])
            /\ (prescriptions[h].doctor # ZeroAddress /\ prescriptions[h].doctor = a)
                  <=> h \in Range(doctorPrescriptions[a]))

\* a fulfilled Record, and then an Issue refused because the doctor was deactivated
C11_Witness ==
    /\ \E h \in Hashes : prescriptions[h].fulfillments # <<>>
    /\ \E a \in Senders : Len(getDoctorPrescriptionIds(a)) = 2
    /\ \A a \in Senders : ~isVerifiedDoctor[a]
    /\ ret.op = "issuePrescription"
    /\ ret.revert = ErrNotDoctor

(***************************************************************************)
(* C12: an issuePrescription by an account that is not a verified doctor   *)
(* in the state the call runs in reverts as not-a-doctor, whatever its     *)
(* arguments and whatever the account did before, and writes nothing; and  *)
(* every Record is created by an account that is a verified doctor in that *)
(* state, with that block's time as issuedAt.                              *)
(***************************************************************************)
C12_IssuerVerifiedAtIssue ==
    /\ [](\A s \in Senders, p \in Addresses, h \in Hashes, l \in Locators, e \in Expiries :
            ~isVerifiedDoctor[s] => issuePrescriptionRevert(s, p, h, l, e) = ErrNotDoctor)
    /\ [][/\ (ret'.op = "issuePrescription" /\ ret'.revert = ErrNotDoctor) =>
                UNCHANGED <<prescriptions, patientPrescriptions, doctorPrescriptions,
                            issuedEvents>>
          /\ \A h \in Hashes :
                Created(h) => /\ isVerifiedDoctor[prescriptions'[h].doctor]
                              /\ prescriptions'[h].issuedAt = now]_vars

\* a doctor issued, every doctor was deactivated, and a further Issue was refused
C12_Witness ==
    /\ \E h \in Hashes : prescriptions[h].doctor # ZeroAddress
    /\ \A s \in Senders : ~isVerifiedDoctor[s]
    /\ ret.op = "issuePrescription"
    /\ ret.revert = ErrNotDoctor

C14_FingerprintIsId ==
    \A id \in Hashes :
        prescriptions[id].doctor # ZeroAddress =>
            /\ prescriptions[id].contentHash = id
            /\ verifyPrescription(id, id) <=> now <= prescriptions[id].expiryDate

\* two Records, one still valid under its own id and one expired
C14_Witness ==
    /\ \A id \in Hashes : prescriptions[id].doctor # ZeroAddress
    /\ \E id \in Hashes : verifyPrescription(id, id)
    /\ \E id \in Hashes : ~verifyPrescription(id, id)

\* the fields of a Record that are fixed at issue
Fixed(p) == <<p.doctor, p.patient, p.contentHash, p.ipfsHash, p.issuedAt, p.expiryDate>>

(***************************************************************************)
(* C15: once a Record exists, no step changes its doctor, patient,         *)
(* contentHash, ipfsHash, issuedAt or expiryDate, and it exists in the     *)
(* next state too; by induction the same holds for every later state.      *)
(***************************************************************************)
C15_RecordsImmutable ==
    [][\A h \in Hashes :
          prescriptions[h].doctor # ZeroAddress =>
              /\ Fixed(prescriptions'[h]) = Fixed(prescriptions[h])
              /\ prescriptions'[h].doctor # ZeroAddress]_vars

\* a Record that outlived its expiry, its doctor's and its pharmacy's registration
C15_Witness ==
    /\ Issued(171)
    /\ prescriptions[171].fulfillments # <<>>
    /\ ~isVerifiedDoctor[prescriptions[171].doctor]
    /\ ~isVerifiedPharmacy(2)
    /\ now > prescriptions[171].expiryDate
    /\ ret.op = "issuePrescription"

IsPrefix(s, t) == Len(s) <= Len(t) /\ SubSeq(t, 1, Len(s)) = s

(***************************************************************************)
(* C16: in every step each Record's fulfillments sequence is a prefix of   *)
(* its next value, so no entry is ever removed, moved or changed; a        *)
(* fulfillPrescription that goes through adds exactly one entry, at the    *)
(* end, and leaves every other Record as it was; and fulfilledAt never     *)
(* decreases along a sequence.                                             *)
(***************************************************************************)
C16_FulfillmentsAppendOnly ==
    /\ [][/\ \A id \in Hashes :
                IsPrefix(prescriptions[id].fulfillments, prescriptions'[id].fulfillments)
          /\ \A s \in Senders, id \in Hashes :
                (fulfillPrescription(s, id) /\ fulfillPrescriptionRevert(s, id) = Ok) =>
                   /\ Len(prescriptions'[id].fulfillments) =
                         Len(prescriptions[id].fulfillments) + 1
                   /\ \A g \in Hashes \ {id} : prescriptions'[g] = prescriptions[g]]_vars
    /\ [](\A id \in Hashes :
            \A i, j \in DOMAIN prescriptions[id].fulfillments :
                i <= j => prescriptions[id].fulfillments[i].fulfilledAt
                             <= prescriptions[id].fulfillments[j].fulfilledAt)

\* two fulfillments of one Record at different times, beside another fulfilled Record
C16_Witness ==
    /\ Len(prescriptions[171].fulfillments) = 2
    /\ Len(prescriptions[0].fulfillments) = 1
    /\ prescriptions[171].fulfillments[1].fulfilledAt
          < prescriptions[171].fulfillments[2].fulfilledAt
    /\ ret.op = "fulfillPrescription"
    /\ ret.revert = Ok

(***************************************************************************)
(* C17: the entry a fulfillment adds carries the name its pharmacy is      *)
(* registered under in the state the call runs in, which is not empty;     *)
(* and no step changes the name in an entry that is already there, so a    *)
(* later removal or re-registration under another name does not show in    *)
(* it.                                                                     *)
(***************************************************************************)
C17_NameCapturedAtFulfill ==
    [][\A id \in Hashes :
          /\ Len(prescriptions'[id].fulfillments) > Len(prescriptions[id].fulfillments) =>
                LET entry == prescriptions'[id].fulfillments[Len(prescriptions'[id].fulfillments)]
                IN /\ entry.pharmacyName = verifiedPharmacies[entry.pharmacyAddress]
                   /\ entry.pharmacyName # ""
          /\ \A i \in DOMAIN prescriptions[id].fulfillments :
                /\ i \in DOMAIN prescriptions'[id].fulfillments
                /\ prescriptions'[id].fulfillments[i].pharmacyName =
                      prescriptions[id].fulfillments[i].pharmacyName]_vars

\* one entry whose pharmacy now has another name, one whose pharmacy is gone
C17_Witness ==
    /\ \E i \in DOMAIN prescriptions[171].fulfillments :
          LET entry == prescriptions[171].fulfillments[i]
          IN /\ isVerifiedPharmacy(entry.pharmacyAddress)
             /\ entry.pharmacyName # getPharmacyName(entry.pharmacyAddress)
    /\ \E i \in DOMAIN prescriptions[171].fulfillments :
          ~isVerifiedPharmacy(prescriptions[171].fulfillments[i].pharmacyAddress)
    /\ ret.op = "registerPharmacy"
    /\ ret.revert = Ok

(***************************************************************************)
(* C18: hasPharmacyFulfilled has no failing path; for an id without a      *)
(* Record it answers false, and for every id and address it answers true   *)
(* exactly when the Record's fulfillments hold an entry of that address,   *)
(* which is also what the dashboard's scan of the list returned by         *)
(* getPrescriptionDetails gives.                                           *)
(***************************************************************************)
C18_HasFulfilledAgreesWithList ==
    \A id \in Hashes, a \in Addresses :
        /\ hasPharmacyFulfilled(id, a) \in BOOLEAN
        /\ prescriptions[id].doctor = ZeroAddress => ~hasPharmacyFulfilled(id, a)
        /\ hasPharmacyFulfilled(id, a) <=> HasEntry(id, a)
        /\ hasPharmacyFulfilled(id, a) <=>
              fulfillmentsSome(ContractService_getPrescriptionDetails(id, TRUE).fulfillments, a)

\* a Record fulfilled by one pharmacy and not by the other, beside an id never issued
C18_Witness ==
    /\ hasPharmacyFulfilled(171, 1)
    /\ ~hasPharmacyFulfilled(171, 2)
    /\ isVerifiedPharmacy(2)
    /\ prescriptions[0].doctor = ZeroAddress
    /\ ret.op = "fulfillPrescription"
    /\ ret.revert = Ok

(***************************************************************************)
(* C19: getPrescriptionDetails reverts as does-not-exist exactly for the   *)
(* ids that were never issued; for an issued id it returns the stored      *)
(* doctor, patient, contentHash, ipfsHash, issuedAt, expiryDate and the    *)
(* whole fulfillments sequence in its order, and ContractService hands     *)
(* the same values on, the contentHash as the hex text of the stored one;  *)
(* a dashboard read that goes through reports not-found exactly for an id  *)
(* without a Record and otherwise carries the stored values on.            *)
(***************************************************************************)
C19_GetDetails ==
    /\ [](\A id \in Hashes :
            /\ getPrescriptionDetailsRevert(id) = IF Issued(id) THEN Ok ELSE ErrNotExist
            /\ Issued(id) =>
                 LET d == ContractService_getPrescriptionDetails(id, TRUE)
                 IN /\ getPrescriptionDetails(id) =
                          Fixed(prescriptions[id]) \o <<prescriptions[id].fulfillments>>
                    /\ <<d.doctor, d.patient, toBytes32(d.contentHash), d.ipfsHash,
                         d.issuedAt, d.expiryDate, d.fulfillments>> = getPrescriptionDetails(id)
                    /\ d.contentHash = hexlify(prescriptions[id].contentHash)
                    /\ d.doctor # ZeroAddress)
    /\ [][handleVerify_Details(TRUE) =>
             IF Issued(HvId)
             THEN /\ pc' = "verify"
                  /\ hv'.blockchainPrescription = ContractService_getPrescriptionDetails(HvId, TRUE)
                  /\ hv'.blockchainPrescription.fulfillments = prescriptions[HvId].fulfillments
             ELSE /\ pc' = "idle"
                  /\ verificationStatus' = "invalid"
                  /\ statusMessage' = MsgNotFound]_vars

\* the dashboard holding the details of a Record with two fulfillments
C19_Witness ==
    /\ pc = "verify"
    /\ Len(hv.blockchainPrescription.fulfillments) = 2
    /\ hv.blockchainPrescription.fulfillments = prescriptions[171].fulfillments

(***************************************************************************)
(* C20 as stated: a call that failed surfaces as an error. A dashboard     *)
(* read of the details of an issued Record that failed in transport ends   *)
(* the verification with status error and never with the not-found         *)
(* report, and a failed registration lookup for a registered pharmacy is   *)
(* never shown as not-registered.                                          *)
(***************************************************************************)
C20_FailuresSurface ==
    [][/\ (handleVerify_Details(FALSE) /\ Issued(HvId)) =>
             /\ verificationStatus' = "error"
             /\ statusMessage' # MsgNotFound
       /\ (checkPharmacyStatus(FALSE) /\ isVerifiedPharmacy(account)) =>
             statusMessage' # MsgNotRegistered]_vars


(***************************************************************************)
(* C21: a QR text that, once the white space around it is trimmed, is not  *)
(* one 32-byte hex string, a bar and the same string again is rejected by  *)
(* handleVerify before its first ledger read, with status error and a      *)
(* message that is none of the verdict messages; a text of that form goes  *)
(* on to the ledger reads, and whenever the handler is at or before its    *)
(* verifyPrescription call the id and the expected hash it will pass are   *)
(* the same text.  What handleShareClick writes has that form.             *)
(***************************************************************************)
HexTextLen == 2 + 2 * HashBytes

WellFormed(text) ==
    LET t == trim(text)
    IN /\ Len(t) = 2 * HexTextLen + 1
       /\ t[HexTextLen + 1] = "|"
       /\ isHexString(SubSeq(t, 1, HexTextLen), HashBytes)
       /\ SubSeq(t, HexTextLen + 2, Len(t)) = SubSeq(t, 1, HexTextLen)

MalformedMessages ==
    {MsgPasteQR, MsgInvalidFormat, MsgInvalidId, MsgInvalidHash, MsgQRMismatch}

VerdictMessages ==
    {MsgNotFound, MsgValid, MsgValidAlready, MsgUnknown, MsgMismatch, MsgExpired}

C22_NotFoundForEveryCaller ==
    [][\A s \in Senders, id \in Hashes :
          (/\ fulfillPrescription(s, id)
           /\ ret' = Outcome("fulfillPrescription", fulfillPrescriptionRevert(s, id))
           /\ ~Issued(id))
              => ret'.revert = ErrNotExist]_vars

(***************************************************************************)
(* C23 as stated: when the dashboard has verified a Record as valid and    *)
(* unfulfilled by its account, another session of the same account has     *)
(* fulfilled it in the meantime, and the dashboard then submits its own    *)
(* fulfillPrescription, that transaction reverts with the                  *)
(* already-fulfilled reason.                                               *)
(***************************************************************************)
FulfillId == toBytes32(verifiedPrescription[1].prescriptionId)

\* the dashboard submits a fulfillPrescription and learns its outcome
DashboardSubmits ==
    /\ handleFulfillPrescriptionError = Ok
    /\ handleFulfillPrescription("ok")
    /\ ret' = Outcome("fulfillPrescription", fulfillPrescriptionRevert(account, FulfillId))

C23_LoserAlwaysAlreadyFulfilled ==
    [][(DashboardSubmits /\ HasEntry(FulfillId, account))
          => ret'.revert = ErrAlreadyFulfilled]_vars

(***************************************************************************)
(* C23: transactions take effect one after the other.  No Record ever      *)
(* holds two fulfillments by one account and no fingerprint is issued      *)
(* twice.  Of two sessions of one pharmacy that both verified a Record as  *)
(* valid and both submit fulfillPrescription, at most one succeeds; once   *)
(* one has, the other reverts and changes nothing: as already fulfilled    *)
(* while the account is still a verified pharmacy and the Record is        *)
(* unexpired, as not-a-pharmacy or expired otherwise.  Of two doctors      *)
(* issuing the same fingerprint the first creates the Record, every later  *)
(* issue reverts, as a duplicate when it is otherwise in order, and the    *)
(* Record keeps the doctor, patient, locator and expiry of the first.      *)
(***************************************************************************)
C23_RacesSerialized ==
    /\ [](/\ TimesIssued(171) <= 1
          /\ \A p \in Senders :
                /\ Cardinality(FulfilledBy(171, p)) <= 1
                /\ HasEntry(171, p) => fulfillPrescriptionRevert(p, 171) # Ok
          /\ Issued(171) =>
                /\ prescriptions[171].doctor = issuedEvents[1].doctor
                /\ prescriptions[171].patient = issuedEvents[1].patient
                /\ prescriptions[171].ipfsHash = issuedEvents[1].ipfsHash
                /\ \A s \in Senders, p \in Senders, l \in Locators, e \in Expiries :
                      /\ issuePrescriptionRevert(s, p, 171, l, e) # Ok
                      /\ (isVerifiedDoctor[s] /\ e > now)
                            => issuePrescriptionRevert(s, p, 171, l, e) = ErrDuplicate)
    /\ [][Issued(171) => Fixed(prescriptions[171])' = Fixed(prescriptions[171])]_vars
    /\ [][(DashboardSubmits /\ HasEntry(FulfillId, account)) =>
             /\ ret'.revert = IF ~isVerifiedPharmacy(account) THEN ErrNotPharmacy
                              ELSE IF ~Unexpired(FulfillId) THEN ErrExpired
                              ELSE ErrAlreadyFulfilled
             /\ UNCHANGED prescriptions]_vars

\* both doctors are verified and one of them has issued the fingerprint; the dashboard,
\* which still shows the Record as valid, has just lost the fulfillment race against
\* the other session of its account
C23_Witness ==
    /\ \A s \in Senders : isVerifiedDoctor[s]
    /\ Issued(171)
    /\ verificationStatus = "valid"
    /\ HasEntry(171, account)
    /\ ret.op = "fulfillPrescription"
    /\ ret.revert = ErrAlreadyFulfilled

(***************************************************************************)
(* C24 as stated: an address becomes a verified doctor only through a      *)
(* registerDoctor transaction sent by the owner, so every issuer of a new  *)
(* Record was registered by the owner.                                     *)
(***************************************************************************)
C24_OnlyOwnerRegistersDoctors ==
    [][\A a \in Senders :
          (~isVerifiedDoctor[a] /\ isVerifiedDoctor'[a])
              => (ret'.op = "registerDoctor" /\ ret'.args = <<owner, a>>)]_vars

(***************************************************************************)
(* C25 as stated: for every Record issued through the doctor dashboard,    *)
(* hashing the document served under the Record's locator gives the        *)
(* Record's id.                                                            *)
(***************************************************************************)
C25_IdIsHashOfStoredDocument ==
    \A h \in Hashes :
        Issued(h) => keccak256(ipfsCat(prescriptions[h].ipfsHash)) = h

C27_VerdictBeforeFulfill ==
    /\ []((pc = "idle" /\ handleFulfillPrescriptionError = Ok)
             => (/\ ret.op = "handleVerify"
                 /\ ret.value
                 /\ ret.args = <<FulfillId, account, FALSE>>))
    /\ [][\A fate \in TxFates :
             (handleFulfillPrescriptionError = Ok /\ handleFulfillPrescription(fate))
                => (/\ ret.op = "handleVerify"
                    /\ ret.value
                    /\ ret.args = <<FulfillId, account, FALSE>>)]_vars
    /\ [][(account' # account) => (verificationStatus' = "null" /\ verifiedPrescription' = <<>>)]_vars

\* the pasted text was changed to another prescription's after a valid verdict on 171,
\* and the fulfillment went out for 171, the id of the verdict (its answer did not
\* come back, and the Record holds the account's fulfillment)
C27_Witness ==
    /\ statusMessage = MsgFulfillFailed
    /\ verificationStatus = "valid"
    /\ qrCodeInput = handleShareClick(hexlify(0))
    /\ ret.args = <<171, account, FALSE>>
    /\ FulfillId = 171
    /\ hasPharmacyFulfilled(171, account)

\* C28: eligibility agrees with the write path.  In every ledger state and at every
\* block time, for every id and every sender p, fulfillPrescription(id) sent by p goes
\* through exactly if verifyPrescription(id, id) is true, p is a verified pharmacy and
\* hasPharmacyFulfilled(id, p) is false, all read in that same state
C28_EligibilityAgreesWithWrite ==
    \A id \in Hashes, p \in Senders :
        (fulfillPrescriptionRevert(p, id) = Ok)
            <=> (/\ verifyPrescription(id, id)
                 /\ isVerifiedPharmacy(p)
                 /\ ~hasPharmacyFulfilled(id, p))

\* in the Record's last valid second one pharmacy has fulfilled and is refused a second
\* time, while another verified pharmacy is still eligible
C28_Witness ==
    /\ now = prescriptions[171].expiryDate
    /\ hasPharmacyFulfilled(171, 1)
    /\ isVerifiedPharmacy(1)
    /\ fulfillPrescriptionRevert(1, 171) = ErrAlreadyFulfilled
    /\ fulfillPrescriptionRevert(2, 171) = Ok
    /\ verifyPrescription(171, 171)

\* C29: DoctorRegistry keeps its two flags in step.  In every state isVerifiedDoctor[a]
\* equals doctors[a].isActive; a registerDoctor for an active address reverts with
\* "already registered" and an active doctor's name, licence, specialization and
\* registeredAt never change; deactivateDoctor goes through exactly for the owner on an
\* active doctor, a doctor goes inactive only by such a call, and a refused call
\* leaves both flags as they were
C29_DoctorFlagsInStep ==
    /\ [](\A a \in Addresses : isVerifiedDoctor[a] = doctors[a].isActive)
    /\ [][\A s \in Senders, a \in Senders, n \in {"Dr", "Dx"} :
             (/\ doctors[a].isActive
              /\ registerDoctor(a, n, "L", "S")
              /\ ret' = SentOutcome("registerDoctor", s, a, registerDoctorRevert(a)))
                => (ret'.revert = ErrDocAlready /\ UNCHANGED <<doctors, isVerifiedDoctor>>)]_vars
    /\ [][\A a \in Addresses :
             doctors[a].isActive
                => (/\ doctors'[a].name = doctors[a].name
                    /\ doctors'[a].licenseNumber = doctors[a].licenseNumber
                    /\ doctors'[a].specialization = doctors[a].specialization
                    /\ doctors'[a].registeredAt = doctors[a].registeredAt)]_vars
    /\ [][\A s \in Senders, a \in Senders :
             (/\ deactivateDoctor(s, a)
              /\ ret' = SentOutcome("deactivateDoctor", s, a, deactivateDoctorRevert(s, a)))
                => (/\ (ret'.revert = Ok) <=> (s = owner /\ doctors[a].isActive)
                    /\ ret'.revert = Ok => (~doctors'[a].isActive /\ ~isVerifiedDoctor'[a])
                    /\ ret'.revert # Ok => UNCHANGED <<doctors, isVerifiedDoctor>>)]_vars
    /\ [][\A a \in Addresses :
             (doctors[a].isActive /\ ~doctors'[a].isActive)
                => (ret'.op = "deactivateDoctor" /\ ret'.args = <<owner, a>>
                    /\ ret'.revert = Ok)]_vars

\* a second registration of the active doctor 2 was refused some time after the first,
\* and doctor 1 has been registered and deactivated
C29_Witness ==
    /\ ret.op = "registerDoctor"
    /\ ret.revert = ErrDocAlready
    /\ ret.args[2] = 2
    /\ doctors[2].isActive
    /\ isVerifiedDoctor[2]
    /\ doctors[2].registeredAt < now
    /\ doctors[1].name # ""
    /\ ~doctors[1].isActive
    /\ ~isVerifiedDoctor[1]

\* C30: PharmacyRegistry takes "verified" to mean "has a non-empty name".  In every
\* state isVerifiedPharmacy(a) holds exactly if getPharmacyName(a) is non-empty; a
\* registerPharmacy for a registered address reverts with "already registered" and a
\* registered pharmacy's name changes only by its removal; fulfillPrescription never
\* fails with "Pharmacy name not found"; every stored fulfillment has a non-empty name
C30_VerifiedMeansNamed ==
    /\ [](\A a \in Addresses : isVerifiedPharmacy(a) <=> getPharmacyName(a) # "")
    /\ [](\A p \in Senders, id \in Hashes : fulfillPrescriptionRevert(p, id) # ErrNameNotFound)
    /\ [](\A id \in Hashes : \A i \in DOMAIN prescriptions[id].fulfillments :
              prescriptions[id].fulfillments[i].pharmacyName # "")
    /\ [][\A a \in Senders, n \in {"A", "B"} :
             (/\ isVerifiedPharmacy(a)
              /\ registerPharmacy(a, n)
              /\ ret' = Outcome("registerPharmacy", registerPharmacyRevert(a, n)))
                => (ret'.revert = ErrPhAlready /\ UNCHANGED verifiedPharmacies)]_vars
    /\ [][\A a \in Addresses :
             isVerifiedPharmacy(a)
                => (getPharmacyName(a)' = getPharmacyName(a) \/ ~isVerifiedPharmacy(a)')]_vars

\* a registration of an address that is registered was refused; pharmacy 2 is registered
\* as "A", and pharmacy 1, since removed, left a fulfillment under the name it then had
C30_Witness ==
    /\ ret.op = "registerPharmacy"
    /\ ret.revert = ErrPhAlready
    /\ getPharmacyName(2) = "A"
    /\ ~isVerifiedPharmacy(1)
    /\ \E i \in DOMAIN prescriptions[171].fulfillments :
          /\ prescriptions[171].fulfillments[i].pharmacyAddress = 1
          /\ prescriptions[171].fulfillments[i].pharmacyName = "B"

====
